---- MODULE Spec2Model ----
(***************************************************************************)
(* oniongen-go: parallel vanity search for Tor v3 onion addresses.         *)
(*                                                                         *)
(* The model follows src/main.go: main validates the command line, makes   *)
(* the buffered result channel, starts the collector goroutine and one     *)
(* generate goroutine per CPU.  A worker generates keys for ever; on a     *)
(* match it prints / writes the Tor files (pattern variant only) and sends *)
(* a PrefixMatch on the channel.  The collector appends what it receives   *)
(* and, when matchCount reaches number, writes the Bitcoin key file (in    *)
(* bitcoin mode) and calls os.Exit(0).                                     *)
(*                                                                         *)
(* Abstractions.  An onion address is the record [text, key]: text is the  *)
(* leading AddrLen characters of the 56 character base32 string, key is    *)
(* the identity <<worker, attempt>> of the keypair it was derived from     *)
(* (two freshly generated keypairs never coincide).  ElapsedTime is not    *)
(* modelled (there is no clock).  A panic ends the process with status 2   *)
(* in the step that raises it.                                             *)
(***************************************************************************)
EXTENDS Integers, Sequences, FiniteSets, TLC

\* ------------------------------------------------------------------ bounds
NumCPU == 2
MaxNumber == 2
MaxAttempts == 1
AddrLen == 2
MaxPrefixes == 2

Workers == 1..NumCPU
Alphabet == {"a", "b"}

\* ------------------------------------------------------- program constants
TorMode == "tor"
BitcoinMode == "bitcoin"
DefaultOutputFile == "onion_v3_private_key"
SecretKeyFileName == "hs_ed25519_secret_key"
PublicKeyFileName == "hs_ed25519_public_key"
HostnameFileName == "hostname"
TorFileNames == {SecretKeyFileName, PublicKeyFileName, HostnameFileName}

\* exit status of a process that is still running
Running == 0 - 1
ExitSuccess == 0
ExitFailure == 1
ExitPanic == 2

\* ---------------------------------------------------------- string helpers
\* strings.HasPrefix
HasPrefix(s, p) ==
    /\ Len(p) <= Len(s)
    /\ \A i \in 1..Len(p) : s[i] = p[i]

\* substring search, as an unanchored regular expression of literals does
Contains(s, p) ==
    \E k \in 0..(Len(s) - Len(p)) : \A i \in 1..Len(p) : s[k + i] = p[i]

RECURSIVE TrimLeft(_)
TrimLeft(s) == IF s # << >> /\ Head(s) = " " THEN TrimLeft(Tail(s)) ELSE s

RECURSIVE TrimRight(_)
TrimRight(s) ==
    IF s # << >> /\ s[Len(s)] = " " THEN TrimRight(SubSeq(s, 1, Len(s) - 1)) ELSE s

\* strings.TrimSpace
TrimSpace(s) == TrimRight(TrimLeft(s))

Digits == {"0", "1", "2", "3", "4", "5", "6", "7", "8", "9"}
DigitVal == ("0" :> 0) @@ ("1" :> 1) @@ ("2" :> 2) @@ ("3" :> 3) @@ ("4" :> 4) @@
            ("5" :> 5) @@ ("6" :> 6) @@ ("7" :> 7) @@ ("8" :> 8) @@ ("9" :> 9)
DigitChar == [n \in 0..9 |-> CHOOSE c \in Digits : DigitVal[c] = n]

RECURSIVE DecimalValue(_)
DecimalValue(s) ==
    IF s = << >> THEN 0
    ELSE 10 * DecimalValue(SubSeq(s, 1, Len(s) - 1)) + DigitVal[s[Len(s)]]

\* strconv.Atoi: [err, val]
Atoi(s) ==
    LET signed == s # << >> /\ Head(s) \in {"-", "+"}
        body == IF signed THEN Tail(s) ELSE s
    IN  IF body = << >> \/ \E i \in 1..Len(body) : body[i] \notin Digits
        THEN [err |-> TRUE, val |-> 0]
        ELSE [err |-> FALSE,
              val |-> IF signed /\ Head(s) = "-" THEN 0 - DecimalValue(body)
                      ELSE DecimalValue(body)]

\* regexp.Compile on the fragment used here: literals, an optional leading
\* "^", and parentheses, which must balance.
RECURSIVE ParenDepth(_, _)
ParenDepth(p, d) ==
    IF d < 0 THEN d
    ELSE IF p = << >> THEN d
    ELSE ParenDepth(Tail(p), IF Head(p) = "(" THEN d + 1
                             ELSE IF Head(p) = ")" THEN d - 1 ELSE d)

Compiles(p) == ParenDepth(p, 0) = 0

\* (*regexp.Regexp).MatchString on that fragment
MatchString(p, s) ==
    LET lits == SelectSeq(p, LAMBDA c : c \notin {"^", "(", ")"})
    IN  IF p # << >> /\ Head(p) = "^" THEN HasPrefix(s, lits) ELSE Contains(s, lits)

\* --------------------------------------------------------- command lines
\* the address text that the pattern and the prefix of the valid command
\* lines ask for: "ab", then "b" up to AddrLen characters
Vanity == [i \in 1..AddrLen |-> IF i = 1 THEN "a" ELSE "b"]

NoPrefixFile == [given |-> FALSE, readable |-> FALSE, lines |-> << >>]
PrefixFileOf(ls) == [given |-> TRUE, readable |-> TRUE, lines |-> ls]

PrefixFileInputs ==
    { NoPrefixFile,
      [given |-> TRUE, readable |-> FALSE, lines |-> << >>],
      PrefixFileOf(<< >>),
      PrefixFileOf(<< << >>, <<" ">> >>),
      PrefixFileOf(<< <<" ">>, <<" ">> \o Vanity \o <<" ">>, << >> >>) }

NumberArgs == { <<DigitChar[n]>> : n \in 0..MaxNumber } \cup { <<"-", "1">>, <<"x">> }
PatternArgs == { <<"^">> \o Vanity, <<"(", "a">> }

\* a number followed by a pattern: what is left of "<regex> <number>" when
\* the number is given first, as the prefix-file form reads it
NumberThenPattern == << <<DigitChar[1]>>, <<"b">> >>

ArgInputs ==
    { << >> }
    \cup { <<n>> : n \in NumberArgs }
    \cup { <<p>> : p \in PatternArgs }
    \cup { <<p, n>> : p \in PatternArgs, n \in NumberArgs }
    \cup { NumberThenPattern }

ModeInputs == {TorMode, BitcoinMode, "i2p"}
OutputPathInputs == {"", "keys.txt"}

VARIABLES
    modeFlag,       \* -mode
    outputPath,     \* -output
    prefixFile,     \* -prefixfile and the file it names
    args,           \* flag.Args()
    mainPc,         \* "start", "validated", "wait", "exited"
    number,         \* main: number
    prefixes,       \* main: prefixes
    re,             \* main: re, [set, pattern]
    chanMade,       \* resultChan has been made
    resultChan,     \* buffered PrefixMatch records
    matches,        \* main: matches
    matchCount,     \* main: matchCount
    colPc,          \* collector: "off", "recv", "open", "write", "flush"
    writeIdx,       \* saveBitcoinFormatMulti: index of the next match to write
    writerBuf,      \* saveBitcoinFormatMulti: lines held by the bufio.Writer
    keyFiles,       \* key files on disk: path -> lines
    saveCalls,      \* number of calls of saveBitcoinFormatMulti
    wpc,            \* generate: position of each worker
    attempts,       \* generate: attempts of each worker
    cur,            \* generate: the matches of the current key still to send
    mkdirErr,       \* saveTorFormat: MkdirAll returned an error (discarded)
    disk,           \* directories on disk: onion address -> file names
    stdout,         \* what has been printed
    exitStatus,     \* Running, or the status the process ended with
    xsk,            \* expandSecretKey on its own: [hash, out]
    scan,           \* the prefix loop on its own: [prefixes, text, out]
    enc             \* encodePublicKey on its own: [key, out]

cfgVars == <<modeFlag, outputPath, prefixFile, args>>
mainVars == <<mainPc, number, prefixes, re, chanMade>>
colVars == <<matches, matchCount, colPc, writeIdx, writerBuf, keyFiles, saveCalls>>
workerVars == <<wpc, attempts, cur, mkdirErr, disk>>
vars == <<cfgVars, mainVars, colVars, workerVars, resultChan, stdout, exitStatus, xsk, scan, enc>>

\* ------------------------------------------------------------- values
AddrTexts == [1..AddrLen -> Alphabet]

\* the keypair generated by worker w at its n-th attempt, whose address
\* starts with text
KeyPair(w, n, text) == [text |-> text, key |-> <<w, n>>]

\* base64.StdEncoding.EncodeToString(secretKey[:32])
EncodeSeed(onionAddress) == [b64seed |-> onionAddress.key]

PrefixMatch(prefix, onionAddress, n) ==
    [Prefix |-> prefix, OnionAddr |-> onionAddress,
     PrivateKey |-> EncodeSeed(onionAddress), Attempts |-> n]

NoRegexp == [set |-> FALSE, pattern |-> << >>]

\* ------------------------------------------------------ readPrefixFile
RECURSIVE NonEmptyTrimmed(_)
NonEmptyTrimmed(lines) ==
    IF lines = << >> THEN << >>
    ELSE LET prefix == TrimSpace(Head(lines))
         IN  IF prefix # << >> THEN <<prefix>> \o NonEmptyTrimmed(Tail(lines))
             ELSE NonEmptyTrimmed(Tail(lines))

readPrefixFile(file) ==
    IF ~file.readable THEN [err |-> "cannot open prefix file", prefixes |-> << >>]
    ELSE LET ps == NonEmptyTrimmed(file.lines)
         IN  IF Len(ps) = 0
             THEN [err |-> "no valid prefixes found in file", prefixes |-> << >>]
             ELSE [err |-> "", prefixes |-> ps]

\* ------------------------------------------------- main: validation
CountRejectedLax(a) == a.err

\* err != nil || num < 1
CountRejected(a) == a.err \/ a.val < 1

Rejected(msg) == [err |-> msg, number |-> 0, prefixes |-> << >>, re |-> NoRegexp]

ParseCommandLineBoth ==
    IF modeFlag # TorMode /\ modeFlag # BitcoinMode THEN Rejected("Invalid output mode")
    ELSE IF prefixFile.given
    THEN LET r == readPrefixFile(prefixFile)
         IN  IF r.err # "" THEN Rejected("Error reading prefix file")
             ELSE IF Len(args) < 1 THEN Rejected("Missing number of addresses to generate")
             ELSE IF CountRejected(Atoi(args[1]))
                  THEN Rejected("Number of addresses must be a positive integer")
             ELSE [err |-> "", number |-> Atoi(args[1]).val, prefixes |-> r.prefixes,
                   re |-> IF Len(args) >= 2 /\ Compiles(args[2])
                          THEN [set |-> TRUE, pattern |-> args[2]] ELSE NoRegexp]
    ELSE IF Len(args) < 2 THEN Rejected("Missing required arguments")
         ELSE IF CountRejected(Atoi(args[2]))
              THEN Rejected("Number of addresses must be a positive integer")
         ELSE IF ~Compiles(args[1]) THEN Rejected("Invalid regular expression")
         ELSE [err |-> "", number |-> Atoi(args[2]).val,
               prefixes |-> << >>, re |-> [set |-> TRUE, pattern |-> args[1]]]

\* main, from the flags to the compiled pattern: the first check that
\* fails decides the message; err = "" when every check passes
ParseCommandLine ==
    IF modeFlag # TorMode /\ modeFlag # BitcoinMode THEN Rejected("Invalid output mode")
    ELSE IF prefixFile.given
    THEN LET r == readPrefixFile(prefixFile)
         IN  IF r.err # "" THEN Rejected("Error reading prefix file")
             ELSE IF Len(args) < 1 THEN Rejected("Missing number of addresses to generate")
             ELSE IF CountRejected(Atoi(args[1]))
                  THEN Rejected("Number of addresses must be a positive integer")
             ELSE [err |-> "", number |-> Atoi(args[1]).val,
                   prefixes |-> r.prefixes, re |-> NoRegexp]
    ELSE IF Len(args) < 2 THEN Rejected("Missing required arguments")
         ELSE IF CountRejected(Atoi(args[2]))
              THEN Rejected("Number of addresses must be a positive integer")
         ELSE IF ~Compiles(args[1]) THEN Rejected("Invalid regular expression")
         ELSE [err |-> "", number |-> Atoi(args[2]).val,
               prefixes |-> << >>, re |-> [set |-> TRUE, pattern |-> args[1]]]

\* ------------------------------------------------------ expandSecretKey
Byte == 0..255
Bit(x, k) == (x \div (2 ^ k)) % 2

\* x & m and x | m on bytes
BitAnd(x, m) ==
    LET b(k) == IF Bit(x, k) = 1 /\ Bit(m, k) = 1 THEN 2 ^ k ELSE 0
    IN  b(0) + b(1) + b(2) + b(3) + b(4) + b(5) + b(6) + b(7)

BitOr(x, m) ==
    LET b(k) == IF Bit(x, k) = 1 \/ Bit(m, k) = 1 THEN 2 ^ k ELSE 0
    IN  b(0) + b(1) + b(2) + b(3) + b(4) + b(5) + b(6) + b(7)

\* a value sha512.Sum512 can return: the two bytes the expansion touches
\* are b0 and b31, the other 62 bytes a fixed filling
Sum512Value(b0, b31) ==
    [i \in 1..64 |-> IF i = 1 THEN b0 ELSE IF i = 32 THEN b31 ELSE (37 * i) % 256]

expandSecretKeyWrongByte(hash) ==
    [hash EXCEPT ![1] = BitAnd(hash[1], 248),
                 ![64] = BitOr(BitAnd(hash[64], 127), 64)]

\* hash[0] &= 248; hash[31] &= 127; hash[31] |= 64  (Go indexes from 0)
expandSecretKey(hash) ==
    [hash EXCEPT ![1] = BitAnd(hash[1], 248),
                 ![32] = BitOr(BitAnd(hash[32], 127), 64)]

NotExpanded == [hash |-> << >>, out |-> << >>]
NotScanned == [prefixes |-> << >>, text |-> << >>, done |-> FALSE, out |-> << >>]

\* ------------------------------------------------------ encodePublicKey
\* []byte(".onion checksum")
OnionChecksumTag ==
    <<46, 111, 110, 105, 111, 110, 32, 99, 104, 101, 99, 107, 115, 117, 109>>

RECURSIVE WeightedSum(_, _, _)
WeightedSum(msg, i, j) ==
    IF j > Len(msg) THEN 0 ELSE (i + j) * msg[j] + WeightedSum(msg, i, j + 1)

\* sha3.Sum256: a 32-byte digest that is a function of the whole message
\* (of its bytes and of their positions); the digest function itself is
\* a stand-in
Sum256(msg) == [i \in 1..32 |-> (WeightedSum(msg, i, 1) + 7 * i + Len(msg)) % 256]

\* base32.StdEncoding: the RFC 4648 alphabet, padded with "="
StdAlphabet ==
    <<"A", "B", "C", "D", "E", "F", "G", "H", "I", "J", "K", "L", "M", "N", "O", "P",
      "Q", "R", "S", "T", "U", "V", "W", "X", "Y", "Z", "2", "3", "4", "5", "6", "7">>
StdPadding == "="

\* bit j of the byte stream, most significant bit of each byte first; zero
\* after the last byte
StreamBit(src, j) ==
    IF j >= 8 * Len(src) THEN 0 ELSE Bit(src[(j \div 8) + 1], 7 - (j % 8))

\* the 5-bit group c of the stream
Quintet(src, c) ==
    16 * StreamBit(src, 5 * c) + 8 * StreamBit(src, 5 * c + 1)
    + 4 * StreamBit(src, 5 * c + 2) + 2 * StreamBit(src, 5 * c + 3)
    + StreamBit(src, 5 * c + 4)

\* (*base32.Encoding).EncodeToString: one character for each started 5-bit
\* group, then padding up to a multiple of 8 characters
EncodeToString(src) ==
    LET digits == (8 * Len(src) + 4) \div 5
        total == 8 * ((Len(src) + 4) \div 5)
    IN  [c \in 1..total |->
            IF c <= digits THEN StdAlphabet[Quintet(src, c - 1) + 1] ELSE StdPadding]

UpperCase ==
    <<"A", "B", "C", "D", "E", "F", "G", "H", "I", "J", "K", "L", "M",
      "N", "O", "P", "Q", "R", "S", "T", "U", "V", "W", "X", "Y", "Z">>
LowerCase ==
    <<"a", "b", "c", "d", "e", "f", "g", "h", "i", "j", "k", "l", "m",
      "n", "o", "p", "q", "r", "s", "t", "u", "v", "w", "x", "y", "z">>

\* strings.ToLower
ToLower(s) ==
    [i \in 1..Len(s) |->
        IF \E k \in 1..Len(UpperCase) : UpperCase[k] = s[i]
        THEN LowerCase[CHOOSE k \in 1..Len(UpperCase) : UpperCase[k] = s[i]]
        ELSE s[i]]

encodePublicKeyNoVersion(publicKey) ==
    LET checksum == Sum256(OnionChecksumTag \o publicKey \o <<3>>)
        onionAddressBytes == publicKey \o SubSeq(checksum, 1, 2)
    IN  ToLower(EncodeToString(onionAddressBytes))

\* lines 98-116: checksum = H(".onion checksum" || pubkey || version),
\* onion_address = base32(pubkey || checksum[:2] || version), in lower case
encodePublicKey(publicKey) ==
    LET checksum == Sum256(OnionChecksumTag \o publicKey \o <<3>>)
        onionAddressBytes == publicKey \o SubSeq(checksum, 1, 2) \o <<3>>
    IN  ToLower(EncodeToString(onionAddressBytes))

\* a public key ed25519.GenerateKey can return: first byte, last byte, and
\* one value for the 30 bytes between them
PublicKeyValue(first, last, middle) ==
    [i \in 1..32 |-> IF i = 1 THEN first ELSE IF i = 32 THEN last ELSE middle]

EndByteInputs == {0, 1, 7, 8, 31, 128, 248, 255}
MiddleByteInputs == {0, 90, 255}

NotEncoded == [key |-> << >>, out |-> << >>]

\* ----------------------------------------------------------------- Init
InitRun ==
    /\ mainPc = "start"
    /\ number = 0
    /\ prefixes = << >>
    /\ re = NoRegexp
    /\ chanMade = FALSE
    /\ resultChan = << >>
    /\ matches = << >>
    /\ matchCount = 0
    /\ colPc = "off"
    /\ writeIdx = 0
    /\ writerBuf = << >>
    /\ keyFiles = << >>
    /\ saveCalls = 0
    /\ wpc = [w \in Workers |-> "off"]
    /\ attempts = [w \in Workers |-> 0]
    /\ cur = [w \in Workers |-> << >>]
    /\ mkdirErr = [w \in Workers |-> FALSE]
    /\ disk = << >>
    /\ stdout = {}
    /\ exitStatus = Running

Init ==
    /\ modeFlag \in ModeInputs
    /\ outputPath \in OutputPathInputs
    /\ prefixFile \in PrefixFileInputs
    /\ args \in ArgInputs
    /\ InitRun
    /\ xsk = NotExpanded
    /\ scan = NotScanned
    /\ enc = NotEncoded

\* os.Exit(code), and the panic of checkErr
Exit(code) == exitStatus' = code

Alive == exitStatus = Running

\* ----------------------------------------------------------------- main
\* lines 246-307, a check fails: the message is printed and os.Exit(1)
MainReject ==
    /\ Alive /\ mainPc = "start"
    /\ ParseCommandLine.err # ""
    /\ stdout' = stdout \cup {[error |-> ParseCommandLine.err]}
    /\ mainPc' = "exited"
    /\ Exit(ExitFailure)
    /\ UNCHANGED <<cfgVars, number, prefixes, re, chanMade, colVars, workerVars,
                   resultChan, xsk, scan, enc>>

\* lines 246-307, every check passes
MainAccept ==
    /\ Alive /\ mainPc = "start"
    /\ ParseCommandLine.err = ""
    /\ number' = ParseCommandLine.number
    /\ prefixes' = ParseCommandLine.prefixes
    /\ re' = ParseCommandLine.re
    /\ mainPc' = "validated"
    /\ UNCHANGED <<cfgVars, chanMade, colVars, workerVars, resultChan, stdout,
                   exitStatus, xsk, scan, enc>>

MainStartNoWait ==
    /\ Alive /\ mainPc = "validated"
    /\ chanMade' = TRUE
    /\ colPc' = "recv"
    /\ wpc' = [w \in Workers |-> "gen"]
    /\ mainPc' = "exited"
    /\ Exit(ExitSuccess)
    /\ UNCHANGED <<cfgVars, number, prefixes, re, matches, matchCount, writeIdx,
                   writerBuf, keyFiles, saveCalls, attempts, cur, mkdirErr, disk,
                   resultChan, stdout, xsk, scan, enc>>

\* lines 309-343: make the channel, start the collector and the workers,
\* then wait on the wait group, which no worker ever signals
MainStart ==
    /\ Alive /\ mainPc = "validated"
    /\ chanMade' = TRUE
    /\ colPc' = "recv"
    /\ wpc' = [w \in Workers |-> "gen"]
    /\ mainPc' = "wait"
    /\ UNCHANGED <<cfgVars, number, prefixes, re, matches, matchCount, writeIdx,
                   writerBuf, keyFiles, saveCalls, attempts, cur, mkdirErr, disk,
                   resultChan, stdout, exitStatus, xsk, scan, enc>>

\* ------------------------------------------------------------- generate
PrefixLoopNoBreak(ps, text) ==
    SelectSeq(ps, LAMBDA prefix : HasPrefix(text, prefix))

RECURSIVE PrefixLoopFrom(_, _, _)
PrefixLoopFrom(ps, text, i) ==
    IF i > Len(ps) THEN << >>
    ELSE IF HasPrefix(text, ps[i]) THEN <<ps[i]>>
    ELSE PrefixLoopFrom(ps, text, i + 1)

\* lines 55-67: for _, prefix := range prefixes { if strings.HasPrefix(
\* onionAddress, prefix) { ...; resultChan <- match; break } }: the
\* prefixes a match is sent for, in the order of the sends
PrefixLoop(ps, text) == PrefixLoopFrom(ps, text, 1)

\* lines 57-63: the match record built for each of them, for the key that
\* worker w generated at its n-th attempt
PrefixMatches(ps, w, n, text) ==
    LET hits == PrefixLoop(ps, text)
    IN  [k \in 1..Len(hits) |-> PrefixMatch(hits[k], KeyPair(w, n, text), n)]

PrefixVariant == Len(prefixes) > 0

\* lines 54-68: does this address give a match
IsMatch(text) ==
    IF PrefixVariant THEN PrefixLoop(prefixes, text) # << >>
    ELSE re.set /\ MatchString(re.pattern, text)

\* line 47-48: ed25519.GenerateKey fails, checkErr panics
GenerateKeyFail(w) ==
    /\ Alive /\ wpc[w] = "gen"
    /\ Exit(ExitPanic)
    /\ UNCHANGED <<cfgVars, mainVars, colVars, workerVars, resultChan, stdout, xsk, scan, enc>>

GenerateMissGlobal(w) ==
    /\ Alive /\ wpc[w] = "gen"
    /\ attempts[w] < MaxAttempts
    /\ \E text \in AddrTexts : ~IsMatch(text)
    /\ attempts' = [v \in Workers |-> attempts[v] + 1]
    /\ UNCHANGED <<cfgVars, mainVars, colVars, wpc, cur, mkdirErr, disk, resultChan,
                   stdout, exitStatus, xsk, scan, enc>>

\* lines 47-68: one pass of the loop over a key that matches nothing
GenerateMiss(w) ==
    /\ Alive /\ wpc[w] = "gen"
    /\ attempts[w] < MaxAttempts
    /\ \E text \in AddrTexts : ~IsMatch(text)
    /\ attempts' = [attempts EXCEPT ![w] = @ + 1]
    /\ UNCHANGED <<cfgVars, mainVars, colVars, wpc, cur, mkdirErr, disk, resultChan,
                   stdout, exitStatus, xsk, scan, enc>>

GenerateMatchPrefixSaves(w) ==
    /\ Alive /\ wpc[w] = "gen"
    /\ PrefixVariant
    /\ \E text \in AddrTexts :
         LET n == attempts[w] + 1
             found == PrefixMatches(prefixes, w, n, text)
         IN  /\ found # << >>
             /\ attempts' = [attempts EXCEPT ![w] = n]
             /\ cur' = [cur EXCEPT ![w] = found]
             /\ wpc' = [wpc EXCEPT ![w] = IF modeFlag = TorMode THEN "mkdir" ELSE "send"]
    /\ UNCHANGED <<cfgVars, mainVars, colVars, mkdirErr, disk, resultChan, stdout,
                   exitStatus, xsk, scan, enc>>

\* lines 47-63: a key whose address starts with a prefix; the prefix loop
\* builds the match and the worker goes to the send
GenerateMatchPrefix(w) ==
    /\ Alive /\ wpc[w] = "gen"
    /\ PrefixVariant
    /\ \E text \in AddrTexts :
         LET n == attempts[w] + 1
             found == PrefixMatches(prefixes, w, n, text)
         IN  /\ found # << >>
             /\ attempts' = [attempts EXCEPT ![w] = n]
             /\ cur' = [cur EXCEPT ![w] = found]
             /\ wpc' = [wpc EXCEPT ![w] = "send"]
    /\ UNCHANGED <<cfgVars, mainVars, colVars, mkdirErr, disk, resultChan, stdout,
                   exitStatus, xsk, scan, enc>>

GenerateMatchPatternNoSave(w) ==
    /\ Alive /\ wpc[w] = "gen"
    /\ ~PrefixVariant
    /\ \E text \in AddrTexts :
         LET n == attempts[w] + 1
             onionAddress == KeyPair(w, n, text)
         IN  /\ re.set /\ MatchString(re.pattern, text)
             /\ attempts' = [attempts EXCEPT ![w] = n]
             /\ stdout' = stdout \cup {[address |-> onionAddress]}
             /\ cur' = [cur EXCEPT ![w] = <<PrefixMatch(<< >>, onionAddress, n)>>]
             /\ wpc' = [wpc EXCEPT ![w] = "send"]
    /\ UNCHANGED <<cfgVars, mainVars, colVars, mkdirErr, disk, resultChan,
                   exitStatus, xsk, scan, enc>>

GenerateMatchPatternAlwaysSaves(w) ==
    /\ Alive /\ wpc[w] = "gen"
    /\ ~PrefixVariant
    /\ \E text \in AddrTexts :
         LET n == attempts[w] + 1
             onionAddress == KeyPair(w, n, text)
         IN  /\ re.set /\ MatchString(re.pattern, text)
             /\ attempts' = [attempts EXCEPT ![w] = n]
             /\ stdout' = stdout \cup {[address |-> onionAddress]}
             /\ cur' = [cur EXCEPT ![w] = <<PrefixMatch(<< >>, onionAddress, n)>>]
             /\ wpc' = [wpc EXCEPT ![w] = "mkdir"]
    /\ UNCHANGED <<cfgVars, mainVars, colVars, mkdirErr, disk, resultChan,
                   exitStatus, xsk, scan, enc>>

\* lines 47-79: a key whose address the pattern matches; the address is
\* printed, the match built, and the worker goes to saveTorFormat (tor) or
\* to the send (bitcoin)
GenerateMatchPattern(w) ==
    /\ Alive /\ wpc[w] = "gen"
    /\ ~PrefixVariant
    /\ \E text \in AddrTexts :
         LET n == attempts[w] + 1
             onionAddress == KeyPair(w, n, text)
         IN  /\ re.set /\ MatchString(re.pattern, text)
             /\ attempts' = [attempts EXCEPT ![w] = n]
             /\ stdout' = stdout \cup {[address |-> onionAddress]}
             /\ cur' = [cur EXCEPT ![w] = <<PrefixMatch(<< >>, onionAddress, n)>>]
             /\ wpc' = [wpc EXCEPT ![w] = IF modeFlag = TorMode THEN "mkdir" ELSE "send"]
    /\ UNCHANGED <<cfgVars, mainVars, colVars, mkdirErr, disk, resultChan,
                   exitStatus, xsk, scan, enc>>

GenerateMatch(w) == GenerateMatchPrefix(w) \/ GenerateMatchPattern(w)

\* --------------------------------------------------------- saveTorFormat
\* line 119: os.MkdirAll(onionAddress, 0700) succeeds
MkdirAll(w) ==
    /\ Alive /\ wpc[w] = "mkdir"
    /\ disk' = IF cur[w][1].OnionAddr \in DOMAIN disk THEN disk
               ELSE disk @@ (cur[w][1].OnionAddr :> {})
    /\ wpc' = [wpc EXCEPT ![w] = "secret"]
    /\ UNCHANGED <<cfgVars, mainVars, colVars, attempts, cur, mkdirErr, resultChan,
                   stdout, exitStatus, xsk, scan, enc>>

\* line 119: os.MkdirAll fails; its error is not looked at
MkdirAllFail(w) ==
    /\ Alive /\ wpc[w] = "mkdir"
    /\ mkdirErr' = [mkdirErr EXCEPT ![w] = TRUE]
    /\ wpc' = [wpc EXCEPT ![w] = "secret"]
    /\ UNCHANGED <<cfgVars, mainVars, colVars, attempts, cur, disk, resultChan,
                   stdout, exitStatus, xsk, scan, enc>>

\* ioutil.WriteFile(onionAddress + "/" + name, ...) succeeds: the directory
\* must be there
WriteFile(w, at, name, next) ==
    /\ Alive /\ wpc[w] = at
    /\ cur[w][1].OnionAddr \in DOMAIN disk
    /\ disk' = [disk EXCEPT ![cur[w][1].OnionAddr] = @ \cup {name}]
    /\ wpc' = [wpc EXCEPT ![w] = next]
    /\ UNCHANGED <<cfgVars, mainVars, colVars, attempts, cur, mkdirErr, resultChan,
                   stdout, exitStatus, xsk, scan, enc>>

\* ioutil.WriteFile fails, checkErr panics
WriteFileFail(w, at) ==
    /\ Alive /\ wpc[w] = at
    /\ Exit(ExitPanic)
    /\ UNCHANGED <<cfgVars, mainVars, colVars, workerVars, resultChan, stdout, xsk, scan, enc>>

\* lines 121-122
WriteSecretKey(w) == WriteFile(w, "secret", SecretKeyFileName, "public")
WriteSecretKeyFail(w) == WriteFileFail(w, "secret")
\* lines 124-125
WritePublicKey(w) == WriteFile(w, "public", PublicKeyFileName, "hostname")
WritePublicKeyFail(w) == WriteFileFail(w, "public")
\* line 127
WriteHostname(w) == WriteFile(w, "hostname", HostnameFileName, "send")
WriteHostnameFail(w) == WriteFileFail(w, "hostname")

SendUnbounded(w) ==
    /\ Alive /\ wpc[w] = "send"
    /\ Len(resultChan) <= number
    /\ resultChan' = Append(resultChan, Head(cur[w]))
    /\ cur' = [cur EXCEPT ![w] = Tail(@)]
    /\ wpc' = [wpc EXCEPT ![w] = IF Tail(cur[w]) = << >> THEN "gen" ELSE "send"]
    /\ mkdirErr' = [mkdirErr EXCEPT ![w] = FALSE]
    /\ UNCHANGED <<cfgVars, mainVars, colVars, attempts, disk, stdout, exitStatus, xsk, scan, enc>>

SendThenStop(w) ==
    /\ Alive /\ wpc[w] = "send"
    /\ Len(resultChan) < number
    /\ resultChan' = Append(resultChan, Head(cur[w]))
    /\ cur' = [cur EXCEPT ![w] = Tail(@)]
    /\ wpc' = [wpc EXCEPT ![w] = IF Tail(cur[w]) = << >> THEN "off" ELSE "send"]
    /\ mkdirErr' = [mkdirErr EXCEPT ![w] = FALSE]
    /\ UNCHANGED <<cfgVars, mainVars, colVars, attempts, disk, stdout, exitStatus, xsk, scan, enc>>

\* lines 64-65 and 83: resultChan <- match, which blocks while the channel
\* holds number records; after the send the prefix loop has broken and the
\* outer loop goes round again
Send(w) ==
    /\ Alive /\ wpc[w] = "send"
    /\ Len(resultChan) < number
    /\ resultChan' = Append(resultChan, Head(cur[w]))
    /\ cur' = [cur EXCEPT ![w] = Tail(@)]
    /\ wpc' = [wpc EXCEPT ![w] = IF Tail(cur[w]) = << >> THEN "gen" ELSE "send"]
    /\ mkdirErr' = [mkdirErr EXCEPT ![w] = FALSE]
    /\ UNCHANGED <<cfgVars, mainVars, colVars, attempts, disk, stdout, exitStatus, xsk, scan, enc>>

\* ------------------------------------------------------------ collector
ReachedTargetEarly(count, n) == count >= n - 1
ReachedTargetLate(count, n) == count > n

\* line 326: atomic.LoadInt32(&matchCount) >= int32(number)
ReachedTarget(count, n) == count >= n

ReceivePrepend ==
    /\ Alive /\ colPc = "recv"
    /\ resultChan # << >>
    /\ resultChan' = Tail(resultChan)
    /\ matches' = <<Head(resultChan)>> \o matches
    /\ matchCount' = matchCount + 1
    /\ IF ~ReachedTarget(matchCount + 1, number)
       THEN UNCHANGED <<colPc, saveCalls, exitStatus>>
       ELSE IF modeFlag = BitcoinMode
            THEN colPc' = "open" /\ saveCalls' = saveCalls + 1 /\ UNCHANGED exitStatus
            ELSE Exit(ExitSuccess) /\ UNCHANGED <<colPc, saveCalls>>
    /\ UNCHANGED <<cfgVars, mainVars, writeIdx, writerBuf, keyFiles, workerVars,
                   stdout, xsk, scan, enc>>

\* lines 321-331: receive one match, append it, count it; at the target
\* either go on to saveBitcoinFormatMulti or os.Exit(0)
Receive ==
    /\ Alive /\ colPc = "recv"
    /\ resultChan # << >>
    /\ resultChan' = Tail(resultChan)
    /\ matches' = Append(matches, Head(resultChan))
    /\ matchCount' = matchCount + 1
    /\ IF ~ReachedTarget(matchCount + 1, number)
       THEN UNCHANGED <<colPc, saveCalls, exitStatus>>
       ELSE IF modeFlag = BitcoinMode
            THEN colPc' = "open" /\ saveCalls' = saveCalls + 1 /\ UNCHANGED exitStatus
            ELSE Exit(ExitSuccess) /\ UNCHANGED <<colPc, saveCalls>>
    /\ UNCHANGED <<cfgVars, mainVars, writeIdx, writerBuf, keyFiles, workerVars,
                   stdout, xsk, scan, enc>>

\* ------------------------------------------------ saveBitcoinFormatMulti
\* lines 132-138
OutputFile == IF outputPath = "" THEN DefaultOutputFile ELSE outputPath

\* line 152
BitcoinKeyLine(match) == <<"ED25519-V3:", match.PrivateKey, "\n">>

\* line 141: the file is created or truncated
OpenFile ==
    /\ Alive /\ colPc = "open"
    /\ keyFiles' = (OutputFile :> << >>) @@ keyFiles
    /\ writerBuf' = << >>
    /\ writeIdx' = 1
    /\ colPc' = "write"
    /\ UNCHANGED <<cfgVars, mainVars, matches, matchCount, saveCalls, workerVars,
                   resultChan, stdout, exitStatus, xsk, scan, enc>>

\* lines 142-145
OpenFileFail ==
    /\ Alive /\ colPc = "open"
    /\ stdout' = stdout \cup {[error |-> "Error opening output file"]}
    /\ Exit(ExitFailure)
    /\ UNCHANGED <<cfgVars, mainVars, colVars, workerVars, resultChan, xsk, scan, enc>>

\* lines 150-154: the line goes to the bufio.Writer
WriteString ==
    /\ Alive /\ colPc = "write"
    /\ writeIdx <= Len(matches)
    /\ writerBuf' = Append(writerBuf, BitcoinKeyLine(matches[writeIdx]))
    /\ writeIdx' = writeIdx + 1
    /\ UNCHANGED <<cfgVars, mainVars, matches, matchCount, colPc, keyFiles, saveCalls,
                   workerVars, resultChan, stdout, exitStatus, xsk, scan, enc>>

\* lines 155-158: the writer reports an error of the file below it
WriteStringFail ==
    /\ Alive /\ colPc = "write"
    /\ writeIdx <= Len(matches)
    /\ stdout' = stdout \cup {[error |-> "Error writing to file"]}
    /\ Exit(ExitFailure)
    /\ UNCHANGED <<cfgVars, mainVars, colVars, workerVars, resultChan, xsk, scan, enc>>

FlushFailIgnored ==
    /\ Alive /\ colPc = "write"
    /\ writeIdx > Len(matches)
    /\ stdout' = stdout \cup {[error |-> "Error flushing data to file"]}
    /\ Exit(ExitSuccess)
    /\ UNCHANGED <<cfgVars, mainVars, colVars, workerVars, resultChan, xsk, scan, enc>>

\* lines 169-175 and 331: the buffered lines reach the file, the function
\* returns and the collector calls os.Exit(0)
Flush ==
    /\ Alive /\ colPc = "write"
    /\ writeIdx > Len(matches)
    /\ keyFiles' = [keyFiles EXCEPT ![OutputFile] = @ \o writerBuf]
    /\ writerBuf' = << >>
    /\ Exit(ExitSuccess)
    /\ UNCHANGED <<cfgVars, mainVars, matches, matchCount, colPc, writeIdx, saveCalls,
                   workerVars, resultChan, stdout, xsk, scan, enc>>

\* lines 170-173
FlushFail ==
    /\ Alive /\ colPc = "write"
    /\ writeIdx > Len(matches)
    /\ stdout' = stdout \cup {[error |-> "Error flushing data to file"]}
    /\ Exit(ExitFailure)
    /\ UNCHANGED <<cfgVars, mainVars, colVars, workerVars, resultChan, xsk, scan, enc>>

\* ------------------------------------------------------------ the system
Main == MainReject \/ MainAccept \/ MainStart

Collector ==
    \/ Receive
    \/ OpenFile \/ OpenFileFail
    \/ WriteString \/ WriteStringFail
    \/ Flush \/ FlushFail

Worker(w) ==
    \/ GenerateKeyFail(w) \/ GenerateMiss(w) \/ GenerateMatch(w)
    \/ MkdirAll(w) \/ MkdirAllFail(w)
    \/ WriteSecretKey(w) \/ WriteSecretKeyFail(w)
    \/ WritePublicKey(w) \/ WritePublicKeyFail(w)
    \/ WriteHostname(w) \/ WriteHostnameFail(w)
    \/ Send(w)

Next == Main \/ Collector \/ \E w \in Workers : Worker(w)

Spec == Init /\ [][Next]_vars

\* every goroutine that can take a step eventually takes one, and a worker
\* that keeps generating keys eventually generates one that matches
FairSpec ==
    /\ Spec
    /\ WF_vars(Main)
    /\ WF_vars(Collector)
    /\ \A w \in Workers : WF_vars(Worker(w)) /\ WF_vars(GenerateMatch(w))

\* --------------------------------------------- expandSecretKey on its own
\* a process that has not started, with one fixed command line
Idle ==
    /\ modeFlag = TorMode
    /\ outputPath = ""
    /\ prefixFile = NoPrefixFile
    /\ args = << >>
    /\ InitRun

ExpandInit ==
    /\ Idle
    /\ scan = NotScanned
    /\ enc = NotEncoded
    /\ \E b0 \in Byte, b31 \in Byte : xsk = [hash |-> Sum512Value(b0, b31), out |-> << >>]

\* line 80: expandSecretKey(secretKey), on the digest of the seed
Expand ==
    /\ xsk.hash # << >> /\ xsk.out = << >>
    /\ xsk' = [xsk EXCEPT !.out = expandSecretKey(xsk.hash)]
    /\ UNCHANGED <<cfgVars, mainVars, colVars, workerVars, resultChan, stdout,
                   exitStatus, scan, enc>>

ExpandNext == Expand

ExpandSpec == ExpandInit /\ [][ExpandNext]_vars

\* ------------------------------------------------ the prefix loop on its own
RECURSIVE SeqsUpTo(_, _)
SeqsUpTo(S, n) ==
    IF n = 0 THEN { << >> }
    ELSE LET shorter == SeqsUpTo(S, n - 1)
         IN  shorter \cup { Append(q, x) : q \in shorter, x \in S }

\* literal prefixes of at most AddrLen characters
PrefixTexts == SeqsUpTo(Alphabet, AddrLen) \ { << >> }

\* ordered, non-empty prefix lists of at most MaxPrefixes prefixes
PrefixLists == SeqsUpTo(PrefixTexts, MaxPrefixes) \ { << >> }

MatchInit ==
    /\ Idle
    /\ xsk = NotExpanded
    /\ enc = NotEncoded
    /\ scan \in { [prefixes |-> ps, text |-> t, done |-> FALSE, out |-> << >>] :
                    ps \in PrefixLists, t \in AddrTexts }

\* lines 47-67, one pass of the worker's loop in the prefix variant: the
\* match records that are sent for one generated key
ScanOneKey ==
    /\ ~scan.done /\ scan.prefixes # << >>
    /\ scan' = [scan EXCEPT !.done = TRUE,
                            !.out = PrefixMatches(scan.prefixes, 1, 1, scan.text)]
    /\ UNCHANGED <<cfgVars, mainVars, colVars, workerVars, resultChan, stdout,
                   exitStatus, xsk, enc>>

MatchNext == ScanOneKey

MatchSpec == MatchInit /\ [][MatchNext]_vars

\* --------------------------------------------- encodePublicKey on its own
EncodeInit ==
    /\ Idle
    /\ xsk = NotExpanded
    /\ scan = NotScanned
    /\ \E first \in EndByteInputs, last \in EndByteInputs, middle \in MiddleByteInputs :
         enc = [key |-> PublicKeyValue(first, last, middle), out |-> << >>]

\* line 51: onionAddress := encodePublicKey(publicKey)
Encode ==
    /\ enc.key # << >> /\ enc.out = << >>
    /\ enc' = [enc EXCEPT !.out = encodePublicKey(enc.key)]
    /\ UNCHANGED <<cfgVars, mainVars, colVars, workerVars, resultChan, stdout,
                   exitStatus, xsk, scan>>

EncodeNext == Encode

EncodeSpec == EncodeInit /\ [][EncodeNext]_vars

\* ================================================================ claims
Started == mainPc = "wait"
TorPattern == Started /\ modeFlag = TorMode /\ ~PrefixVariant
Written(dir) == dir \in DOMAIN disk /\ disk[dir] = TorFileNames
PrintedAddresses == { x.address : x \in { y \in stdout : "address" \in DOMAIN y } }
PrintedErrors == { x.error : x \in { y \in stdout : "error" \in DOMAIN y } }
InSaveTorFormat(w) == wpc[w] \in {"mkdir", "secret", "public", "hostname"}
CanMatch == \E text \in AddrTexts : IsMatch(text)
IOFailureExit == exitStatus \in {ExitFailure, ExitPanic}
BitcoinWriteErrors ==
    {"Error opening output file", "Error writing to file", "Error flushing data to file"}

\* the argument that is read as the number of addresses
CountArg == IF prefixFile.given THEN args[1] ELSE args[2]

\* a command line with one of the configuration errors: a mode that is not
\* tor or bitcoin, a prefix file that cannot be read or holds no non-empty
\* prefix, missing arguments, a count that is no positive integer, a
\* pattern that does not compile
ConfigurationError ==
    \/ modeFlag \notin {"tor", "bitcoin"}
    \/ prefixFile.given /\ ~prefixFile.readable
    \/ prefixFile.given
         /\ \A i \in 1..Len(prefixFile.lines) : TrimSpace(prefixFile.lines[i]) = << >>
    \/ Len(args) < (IF prefixFile.given THEN 1 ELSE 2)
    \/ Atoi(CountArg).err
    \/ Atoi(CountArg).val <= 0
    \/ ~prefixFile.given /\ ~Compiles(args[1])

\* prefix i is the first of the list that the address starts with
FirstMatching(ps, text, i) ==
    /\ HasPrefix(text, ps[i])
    /\ \A j \in 1..(i - 1) : ~HasPrefix(text, ps[j])

\* C1: in Bitcoin mode saveBitcoinFormatMulti is called at most once, the
\* result list holds exactly number matches from the call on, and after a
\* successful exit the key file holds exactly number lines.
C1_BatchWriteOnceWithTarget ==
    /\ saveCalls <= 1
    /\ (saveCalls = 1) = (colPc \in {"open", "write"})
    /\ saveCalls = 1 => modeFlag = BitcoinMode /\ Len(matches) = number
    /\ Started /\ modeFlag = BitcoinMode /\ exitStatus = ExitSuccess
         => /\ saveCalls = 1
            /\ OutputFile \in DOMAIN keyFiles
            /\ Len(keyFiles[OutputFile]) = number

C1_Witness ==
    /\ modeFlag = BitcoinMode /\ exitStatus = ExitSuccess
    /\ number = MaxNumber /\ saveCalls = 1
    /\ Len(keyFiles[OutputFile]) = MaxNumber
    /\ resultChan # << >>

\* C2: in Tor mode with the pattern variant, when the process has exited
\* with status 0 the number of onion-address directories written to disk
\* is exactly number.
C2_NoExtraMatchPersisted ==
    TorPattern /\ exitStatus = ExitSuccess
        => Cardinality({ dir \in DOMAIN disk : Written(dir) }) = number

\* C3: in Tor mode with the pattern variant, every address that has been
\* printed to standard output has its three Tor files on disk.
C3_PrintedAddressHasFiles ==
    TorPattern => \A dir \in PrintedAddresses : Written(dir)

\* C4: in Tor mode, once the collector has exited with status 0, every
\* onion-address directory on disk holds all three files.
C4_NoPartialDirectoryAtExit ==
    Started /\ modeFlag = TorMode /\ exitStatus = ExitSuccess
        => \A dir \in DOMAIN disk : disk[dir] = TorFileNames

\* C5: under fair scheduling, a started run in which keys can match ends,
\* with status 0 unless an I/O failure ended it; once the result list holds
\* number matches the process exits, and the list takes no further match.
C5_EventuallyExits ==
    /\ (Started /\ CanMatch) ~> (exitStatus = ExitSuccess \/ IOFailureExit)
    /\ (Started /\ Len(matches) >= number) ~> (exitStatus # Running)
    /\ [][Started /\ Len(matches) >= number => matches' = matches]_vars

C5_Witness ==
    /\ exitStatus = ExitSuccess
    /\ Len(matches) = number
    /\ \E w \in Workers : InSaveTorFormat(w)
    /\ \E w \in Workers : wpc[w] = "send"

\* C6: every configuration error ends the process with a non-zero status,
\* with no channel made, no worker started, no key generated and nothing
\* written.
C6_ConfigurationErrorExitsBeforeStart ==
    ConfigurationError
        => /\ mainPc # "start" => exitStatus = ExitFailure /\ mainPc = "exited"
           /\ ~chanMade /\ colPc = "off"
           /\ \A w \in Workers : wpc[w] = "off" /\ attempts[w] = 0
           /\ disk = << >> /\ keyFiles = << >> /\ PrintedAddresses = {}

C6_Witness ==
    /\ modeFlag = BitcoinMode /\ prefixFile.given /\ prefixFile.readable
    /\ prefixFile.lines # << >>
    /\ ConfigurationError
    /\ args = << <<"1">> >>
    /\ exitStatus = ExitFailure

\* C7: in the Tor write path, when a step has failed (MkdirAll or one of
\* the three writes) the process does not go on to exit with status 0.
C7_TorWriteFailureAborts ==
    (\E w \in Workers : mkdirErr[w]) => exitStatus # ExitSuccess

\* C8: a failed open, write or flush of the Bitcoin key file ends the
\* process with a non-zero status, and status 0 in Bitcoin mode means that
\* the line of each of the number matches is in the file, none still in
\* the writer.
C8_BitcoinWriteFailureIsFatal ==
    /\ PrintedErrors \cap BitcoinWriteErrors # {} => exitStatus = ExitFailure
    /\ Started /\ modeFlag = BitcoinMode /\ exitStatus = ExitSuccess
         => /\ Len(matches) = number
            /\ OutputFile \in DOMAIN keyFiles
            /\ keyFiles[OutputFile] = [i \in 1..number |-> BitcoinKeyLine(matches[i])]
            /\ writerBuf = << >>

C8_Witness ==
    /\ "Error flushing data to file" \in PrintedErrors
    /\ exitStatus = ExitFailure
    /\ Len(writerBuf) = MaxNumber

\* C9: for every address and every ordered prefix list, one generated key
\* gives at most one match record, and its Prefix is the first prefix of
\* the list that the address starts with.
C9_FirstMatchWins ==
    scan.done
        => /\ Len(scan.out) <= 1
           /\ (scan.out = << >>)
                = (\A i \in 1..Len(scan.prefixes) : ~HasPrefix(scan.text, scan.prefixes[i]))
           /\ \A k \in 1..Len(scan.out) :
                \E i \in 1..Len(scan.prefixes) :
                    /\ FirstMatching(scan.prefixes, scan.text, i)
                    /\ scan.out[k].Prefix = scan.prefixes[i]
                    /\ scan.out[k].OnionAddr.text = scan.text

C9_Witness ==
    /\ scan.done
    /\ scan.prefixes = << <<"a", "b">>, <<"a">> >>
    /\ HasPrefix(scan.text, <<"a", "b">>)
    /\ Len(scan.out) = 1
    /\ scan.out[1].Prefix = <<"a", "b">>

LowerAlphabet == ToLower(StdAlphabet)
Base32Value(c) == CHOOSE v \in 0..31 : LowerAlphabet[v + 1] = c

\* bit j of the 5-bit groups that a string of base32 characters stands for
DecodedBit(s, j) == Bit(Base32Value(s[(j \div 5) + 1]), 4 - (j % 5))

\* the bytes a string of base32 characters without padding decodes to
Base32Decode(s) ==
    [b \in 1..((5 * Len(s)) \div 8) |->
        128 * DecodedBit(s, 8 * (b - 1)) + 64 * DecodedBit(s, 8 * (b - 1) + 1)
        + 32 * DecodedBit(s, 8 * (b - 1) + 2) + 16 * DecodedBit(s, 8 * (b - 1) + 3)
        + 8 * DecodedBit(s, 8 * (b - 1) + 4) + 4 * DecodedBit(s, 8 * (b - 1) + 5)
        + 2 * DecodedBit(s, 8 * (b - 1) + 6) + DecodedBit(s, 8 * (b - 1) + 7)]

LowerBase32Chars == { LowerAlphabet[v] : v \in 1..32 }

\* C11: for every 32-byte public key, encodePublicKey returns 56 characters
\* of the lower-case base32 alphabet, none of them padding, and the string
\* decodes to the public key, then the first two bytes of the SHA3-256 of
\* ".onion checksum" || key || 0x03, then the byte 0x03.
C11_AddressRoundTrips ==
    enc.out # << >>
        => /\ Len(enc.key) = 32
           /\ Len(enc.out) = 56
           /\ \A i \in 1..Len(enc.out) : enc.out[i] \in LowerBase32Chars
           /\ Base32Decode(enc.out)
                = enc.key
                  \o SubSeq(Sum256(OnionChecksumTag \o enc.key \o <<3>>), 1, 2)
                  \o <<3>>

C11_Witness ==
    /\ enc.out # << >>
    /\ enc.key[1] = 255 /\ enc.key[2] = 90 /\ enc.key[32] = 248
    /\ enc.out[1] = "7"
    /\ enc.out[56] = "d"

\* the match records the collector has counted or will count next, in the
\* order of their sends
Sent == matches \o resultChan

\* every match record there is: counted, buffered, or built and not yet sent
Records ==
    { Sent[i] : i \in 1..Len(Sent) }
    \cup UNION { { cur[w][k] : k \in 1..Len(cur[w]) } : w \in Workers }

\* the worker whose key a match record carries
FoundBy(m) == m.OnionAddr.key[1]

\* a worker stands at its send and the channel is full
Blocked(w) == Alive /\ wpc[w] = "send" /\ Len(resultChan) >= number

\* C12: in Tor mode with the pattern variant, every match record in the
\* channel or in the result list has its three Tor files on disk.
C12_CountedMatchIsPersisted ==
    TorPattern => \A i \in 1..Len(Sent) : Written(Sent[i].OnionAddr)

C12_Witness ==
    /\ TorPattern /\ Alive
    /\ matches # << >> /\ resultChan # << >>
    /\ Written(matches[1].OnionAddr) /\ Written(resultChan[1].OnionAddr)

\* C13: with a prefix list no worker ever enters saveTorFormat and no
\* directory is ever on disk, in either mode; in Tor mode no key file is
\* written either, so a run that exits with status 0 has persisted nothing.
C13_PrefixVariantWritesNoTorFiles ==
    PrefixVariant
        => /\ disk = << >>
           /\ \A w \in Workers : ~InSaveTorFormat(w) /\ ~mkdirErr[w]
           /\ modeFlag = TorMode => keyFiles = << >>

C13_Witness ==
    /\ PrefixVariant /\ modeFlag = TorMode
    /\ exitStatus = ExitSuccess
    /\ number = MaxNumber /\ Len(matches) = MaxNumber
    /\ disk = << >> /\ keyFiles = << >>

\* C14 as stated: the channel never holds more than number records, a
\* worker blocked on a full channel leaves the collector a step to take,
\* and no worker is blocked once the collector has counted number matches.
C14_SendNeverBlocksAfterTarget ==
    /\ Len(resultChan) <= number
    /\ \A w \in Workers : Blocked(w) => ENABLED Collector
    /\ Started /\ ReachedTarget(matchCount, number)
         => \A w \in Workers : ~Blocked(w)

\* C14: the channel never holds more than number records; whenever a worker
\* is blocked on a full channel the collector has a step to take, a receive
\* or a step on its way to the exit; a worker that is blocked after the
\* collector has counted number matches finds the collector past its last
\* receive, on that way, with number records left in the channel.
C14_BlockedSenderNeverPreventsExit ==
    /\ Len(resultChan) <= number
    /\ \A w \in Workers : Blocked(w) => ENABLED Collector
    /\ \A w \in Workers :
         Started /\ ReachedTarget(matchCount, number) /\ Blocked(w)
            => /\ colPc \in {"open", "write"}
               /\ Len(resultChan) = number
               /\ ~ENABLED Receive

C14_Witness ==
    /\ Started /\ ReachedTarget(matchCount, number)
    /\ colPc = "write"
    /\ number = MaxNumber
    /\ \A w \in Workers : Blocked(w)

\* two records of one worker stand in the order that worker built them
InWorkerOrder(q) ==
    \A i \in 1..Len(q) : \A j \in (i + 1)..Len(q) :
        FoundBy(q[i]) = FoundBy(q[j]) => q[i].OnionAddr.key[2] < q[j].OnionAddr.key[2]

\* C15: the result list changes only by a receive, which appends the
\* record at the head of the channel, and the channel only by that receive
\* or by a send at its tail; matchCount is the length of the list; records
\* of one worker stand in the list in the order the worker sent them; line
\* i of the key file is the line of the i-th match of the list.
C15_MatchesInArrivalOrder ==
    /\ [][matches' # matches
            => /\ resultChan # << >>
               /\ matches' = Append(matches, Head(resultChan))
               /\ resultChan' = Tail(resultChan)]_vars
    /\ [][resultChan' # resultChan
            => \/ resultChan # << >> /\ resultChan' = Tail(resultChan) /\ matches' # matches
               \/ \E w \in Workers :
                    /\ wpc[w] = "send"
                    /\ resultChan' = Append(resultChan, Head(cur[w]))]_vars
    /\ [](matchCount = Len(matches))
    /\ [](InWorkerOrder(Sent))
    /\ [](\A path \in DOMAIN keyFiles :
            /\ Len(keyFiles[path]) <= Len(matches)
            /\ \A i \in 1..Len(keyFiles[path]) :
                 keyFiles[path][i] = BitcoinKeyLine(matches[i]))

C15_Witness ==
    /\ modeFlag = BitcoinMode /\ exitStatus = ExitSuccess
    /\ number = MaxNumber /\ Len(matches) = MaxNumber
    /\ FoundBy(matches[1]) = 2 /\ FoundBy(matches[2]) = 1
    /\ matches[1].OnionAddr.key[2] > matches[2].OnionAddr.key[2]
    /\ Len(keyFiles[OutputFile]) = MaxNumber
    /\ resultChan # << >>
    /\ FoundBy(resultChan[1]) = 1

\* C16: a worker's counter moves only in that worker's own key generation
\* and only up by one; a match carries the value the counter has when its
\* key is generated, misses included; the counter is never below the
\* Attempts of a record of its worker, and later records of one worker
\* carry strictly larger values.
C16_AttemptsAreWorkerLocal ==
    /\ [][\A w \in Workers :
            /\ attempts'[w] # attempts[w]
                 => /\ wpc[w] = "gen"
                    /\ attempts'[w] = attempts[w] + 1
                    /\ \A v \in Workers \ {w} : attempts'[v] = attempts[v]
            /\ wpc[w] = "gen" /\ wpc'[w] # "gen"
                 => /\ attempts'[w] = attempts[w] + 1
                    /\ cur'[w] # << >>
                    /\ \A k \in 1..Len(cur'[w]) :
                         /\ cur'[w][k].Attempts = attempts'[w]
                         /\ FoundBy(cur'[w][k]) = w]_vars
    /\ [](\A m \in Records : m.Attempts >= 1 /\ m.Attempts <= attempts[FoundBy(m)])
    /\ [](\A w \in Workers : \A k \in 1..Len(cur[w]) : cur[w][k].Attempts = attempts[w])
    /\ [](\A i \in 1..Len(Sent) : \A j \in (i + 1)..Len(Sent) :
            FoundBy(Sent[i]) = FoundBy(Sent[j]) => Sent[i].Attempts < Sent[j].Attempts)

C16_Witness ==
    /\ Len(matches) = 2
    /\ FoundBy(matches[1]) = 1 /\ FoundBy(matches[2]) = 1
    /\ matches[1].Attempts = 2 /\ matches[2].Attempts = 3
    /\ attempts[1] = 3
    /\ attempts[2] = 1

\* the prefixes of the list, as a set
PrefixSet == { prefixes[i] : i \in 1..Len(prefixes) }

\* C17: a started run has either a prefix list or a compiled pattern, never
\* both: with a prefix file no pattern is compiled, whatever the arguments
\* after the number, and every match record carries a prefix of the list
\* that its address starts with; without one every record has the empty
\* Prefix and an address the pattern matches.
C17_OneVariantPerRun ==
    Started
        => /\ PrefixVariant = prefixFile.given
           /\ PrefixVariant = ~re.set
           /\ PrefixVariant
                => \A m \in Records :
                     /\ m.Prefix \in PrefixSet
                     /\ HasPrefix(m.OnionAddr.text, m.Prefix)
           /\ ~PrefixVariant
                => \A m \in Records :
                     /\ m.Prefix = << >>
                     /\ MatchString(re.pattern, m.OnionAddr.text)

C17_Witness ==
    /\ PrefixVariant /\ exitStatus = ExitSuccess
    /\ args = NumberThenPattern
    /\ \E text \in AddrTexts : MatchString(args[2], text) /\ ~IsMatch(text)
    /\ \E w \in Workers :
         /\ attempts[w] = 1 /\ wpc[w] = "gen"
         /\ \A m \in Records : FoundBy(m) # w
    /\ Len(matches) = 1

\* C18: in Bitcoin mode no worker enters saveTorFormat and no directory is
\* ever on disk, pattern matches included; in Tor mode
\* saveBitcoinFormatMulti is never called and no key file is ever opened.
C18_WritePathsExclusive ==
    /\ modeFlag = BitcoinMode
         => /\ disk = << >>
            /\ \A w \in Workers : ~InSaveTorFormat(w) /\ ~mkdirErr[w]
    /\ modeFlag = TorMode
         => /\ keyFiles = << >> /\ writerBuf = << >>
            /\ saveCalls = 0 /\ colPc \notin {"open", "write"}

C18_Witness ==
    /\ modeFlag = BitcoinMode /\ ~PrefixVariant
    /\ exitStatus = ExitSuccess
    /\ Cardinality(PrintedAddresses) > number
    /\ Len(keyFiles[OutputFile]) = number
    /\ disk = << >>

\* the positions of a worker that has been started
WorkerPositions == {"gen", "mkdir", "secret", "public", "hostname", "send"}

\* C19: a started worker is never stopped: a completed send takes it back
\* to key generation with nothing left to send, where a next match can be
\* generated while the process lives; the keys of the match records are
\* all different.
C19_WorkerKeepsSearching ==
    /\ [][\A w \in Workers :
            wpc[w] = "send" /\ wpc'[w] # "send"
                => wpc'[w] = "gen" /\ cur'[w] = << >>]_vars
    /\ [][\A w \in Workers : wpc[w] \in WorkerPositions => wpc'[w] \in WorkerPositions]_vars
    /\ [](Started => \A w \in Workers : wpc[w] \in WorkerPositions)
    /\ [](\A w \in Workers :
            Started /\ Alive /\ CanMatch /\ wpc[w] = "gen" => ENABLED GenerateMatch(w))
    /\ [](\A i \in 1..Len(Sent) : \A j \in 1..Len(Sent) :
            Sent[i].OnionAddr.key = Sent[j].OnionAddr.key => i = j)

C19_Witness ==
    /\ Alive /\ number = MaxNumber
    /\ Len(matches) = 1 /\ FoundBy(matches[1]) = 1
    /\ Len(resultChan) = MaxNumber
    /\ FoundBy(resultChan[1]) = 1 /\ FoundBy(resultChan[MaxNumber]) = 1
    /\ wpc[1] = "gen"
    /\ attempts[2] = 0

\* C20: main stays in wg.Wait() once the workers are started, and a started
\* process that has ended has ended in one of three ways: status 0 from the
\* collector with number matches received, status 1 from a failed step of
\* the Bitcoin write, or the panic of a worker at its key generation or at
\* one of its Tor writes.
C20_OnlyThreeWaysToEnd ==
    /\ [][mainPc = "wait" => mainPc' = "wait"]_vars
    /\ [](chanMade => mainPc = "wait")
    /\ [](chanMade /\ ~Alive
            => \/ /\ exitStatus = ExitSuccess
                  /\ Len(matches) = number /\ matchCount = number
                  /\ modeFlag = BitcoinMode => OutputFile \in DOMAIN keyFiles
               \/ /\ exitStatus = ExitFailure
                  /\ modeFlag = BitcoinMode /\ colPc \in {"open", "write"}
                  /\ PrintedErrors \cap BitcoinWriteErrors # {}
               \/ /\ exitStatus = ExitPanic
                  /\ \E w \in Workers :
                       \/ wpc[w] = "gen"
                       \/ TorPattern /\ wpc[w] \in {"secret", "public", "hostname"})

C20_Witness ==
    /\ mainPc = "wait" /\ exitStatus = ExitPanic
    /\ number = MaxNumber /\ Len(matches) = 1
    /\ \A w \in Workers : wpc[w] # "gen"
    /\ \E w \in Workers : wpc[w] = "hostname"

====
